---------------------------- MODULE Spec2Model ----------------------------
(***************************************************************************)
(* ControlNetValidMeasure (ISIS3, control/objs/ControlNetValidMeasure):    *)
(* the validator of a control measure against the standard options of a    *)
(* Pvl definition file.                                                    *)
(*                                                                         *)
(* Doubles are modelled by integers: every comparison of the source is     *)
(* kept, only the values are drawn from small integer sets.  An image      *)
(* coordinate handed to ValidStandardOptions is a double; it is kept in    *)
(* half pixels (x2 = 2 * x) so that the (int) casts of lines 212 and 216   *)
(* truncate.                                                               *)
(***************************************************************************)
EXTENDS Integers, Sequences, FiniteSets, TLC

VARIABLES
    pc,     \* position of the constructor / of the caller of the validator
    pvl,    \* mPvlOpGrp: the keywords of the ValidMeasure group read so far
    m,      \* the option members set by InitStdOptions and the ValidatePvl* methods
    md,     \* the "last computed" members mdEmissionAngle .. mdResidualMagnitude
    cam,    \* per cube: the image position its Camera was last set to
    call,   \* the last call of the validator: its arguments and what it gave back
    th      \* the threads of the concurrent specification

vars == <<pc, pvl, m, md, cam, call, th>>

-----------------------------------------------------------------------------
(* Program constants, scaled to the small integers of the model.           *)

\* DBL_MAX of <cfloat>, the default of the upper limits (line 59)
DBL_MAX == 1000
\* Isis::ValidMinimum / Isis::ValidMaximum of SpecialPixel.h (lines 60, 61)
ValidMinimum == -3
ValidMaximum == 3
\* the valid range of the angles is [0-135] (lines 53-56, 367)
MinAngle == 0
MaxAngle == 135

-----------------------------------------------------------------------------
(* The Pvl group: a function from the keywords present to their values.    *)

HasKeyword(p, k) == k \in DOMAIN p

\* every group over the keywords `keys` with values in `vals`
Groups(keys, vals) == UNION {[S -> vals] : S \in SUBSET keys}

EmptyGroup == [k \in {} |-> 0]

-----------------------------------------------------------------------------
(* Construction.                                                           *)

InitStdOptions ==
    [ mdMinEmissionAngle   |-> MinAngle,
      mdMaxEmissionAngle   |-> MaxAngle,
      mdMinIncidenceAngle  |-> MinAngle,
      mdMaxIncidenceAngle  |-> MaxAngle,
      miPixelsFromEdge     |-> 0,
      mdMinResolution      |-> 0,
      mdMaxResolution      |-> DBL_MAX,
      mdMinDN              |-> ValidMinimum,
      mdMaxDN              |-> ValidMaximum,
      mdMetersFromEdge     |-> 0,
      mdSampleResTolerance |-> DBL_MAX,
      mdLineResTolerance   |-> DBL_MAX,
      mdResidualTolerance  |-> DBL_MAX ]

\* what a ValidatePvl* method leaves: the members as assigned up to the
\* throw (ok = FALSE) or up to its end (ok = TRUE)
Thrown(mm)   == [ok |-> FALSE, m |-> mm]
Returned(mm) == [ok |-> TRUE,  m |-> mm]

ValidatePvlDN_NoOrderCheck(mm, p) ==
    LET m1 == [mm EXCEPT !.mdMinDN = IF HasKeyword(p, "MinDN") THEN p["MinDN"] ELSE ValidMinimum]
        m2 == [m1 EXCEPT !.mdMaxDN = IF HasKeyword(p, "MaxDN") THEN p["MaxDN"] ELSE ValidMaximum]
    IN  Returned(m2)

ValidatePvlDN(mm, p) ==
    LET m1 == [mm EXCEPT !.mdMinDN = IF HasKeyword(p, "MinDN") THEN p["MinDN"] ELSE ValidMinimum]
        m2 == [m1 EXCEPT !.mdMaxDN = IF HasKeyword(p, "MaxDN") THEN p["MaxDN"] ELSE ValidMaximum]
    IN  IF m2.mdMaxDN < m2.mdMinDN THEN Thrown(m2) ELSE Returned(m2)

ValidatePvlEmissionAngle(mm, p) ==
    LET m1 == IF HasKeyword(p, "MinEmission")
              THEN [mm EXCEPT !.mdMinEmissionAngle = p["MinEmission"]] ELSE mm
        m2 == IF HasKeyword(p, "MaxEmission")
              THEN [m1 EXCEPT !.mdMaxEmissionAngle = p["MaxEmission"]] ELSE m1
    IN  IF HasKeyword(p, "MinEmission")
           /\ (m1.mdMinEmissionAngle < 0 \/ m1.mdMinEmissionAngle > 135)
        THEN Thrown(m1)
        ELSE IF HasKeyword(p, "MaxEmission")
                /\ (m2.mdMaxEmissionAngle < 0 \/ m2.mdMaxEmissionAngle > 135)
        THEN Thrown(m2)
        ELSE IF m2.mdMaxEmissionAngle < m2.mdMinEmissionAngle
        THEN Thrown(m2)
        ELSE Returned(m2)

ValidatePvlIncidenceAngle_NoUpperLimit(mm, p) ==
    LET m1 == IF HasKeyword(p, "MinIncidence")
              THEN [mm EXCEPT !.mdMinIncidenceAngle = p["MinIncidence"]] ELSE mm
        m2 == IF HasKeyword(p, "MaxIncidence")
              THEN [m1 EXCEPT !.mdMaxIncidenceAngle = p["MaxIncidence"]] ELSE m1
    IN  IF HasKeyword(p, "MinIncidence")
           /\ (m1.mdMinIncidenceAngle < 0 \/ m1.mdMinIncidenceAngle > 135)
        THEN Thrown(m1)
        ELSE IF HasKeyword(p, "MaxIncidence") /\ m2.mdMaxIncidenceAngle < 0
        THEN Thrown(m2)
        ELSE IF m2.mdMaxIncidenceAngle < m2.mdMinIncidenceAngle
        THEN Thrown(m2)
        ELSE Returned(m2)

ValidatePvlIncidenceAngle(mm, p) ==
    LET m1 == IF HasKeyword(p, "MinIncidence")
              THEN [mm EXCEPT !.mdMinIncidenceAngle = p["MinIncidence"]] ELSE mm
        m2 == IF HasKeyword(p, "MaxIncidence")
              THEN [m1 EXCEPT !.mdMaxIncidenceAngle = p["MaxIncidence"]] ELSE m1
    IN  IF HasKeyword(p, "MinIncidence")
           /\ (m1.mdMinIncidenceAngle < 0 \/ m1.mdMinIncidenceAngle > 135)
        THEN Thrown(m1)
        ELSE IF HasKeyword(p, "MaxIncidence")
                /\ (m2.mdMaxIncidenceAngle < 0 \/ m2.mdMaxIncidenceAngle > 135)
        THEN Thrown(m2)
        ELSE IF m2.mdMaxIncidenceAngle < m2.mdMinIncidenceAngle
        THEN Thrown(m2)
        ELSE Returned(m2)

ValidatePvlResolution_NoSignCheck(mm, p) ==
    LET m1 == [mm EXCEPT !.mdMinResolution =
                  IF HasKeyword(p, "MinResolution") THEN p["MinResolution"] ELSE 0]
        m2 == [m1 EXCEPT !.mdMaxResolution =
                  IF HasKeyword(p, "MaxResolution") THEN p["MaxResolution"] ELSE DBL_MAX]
    IN  IF m2.mdMaxResolution < m2.mdMinResolution
        THEN Thrown(m2)
        ELSE Returned(m2)

ValidatePvlResolution(mm, p) ==
    LET m1 == [mm EXCEPT !.mdMinResolution =
                  IF HasKeyword(p, "MinResolution") THEN p["MinResolution"] ELSE 0]
        m2 == [m1 EXCEPT !.mdMaxResolution =
                  IF HasKeyword(p, "MaxResolution") THEN p["MaxResolution"] ELSE DBL_MAX]
    IN  IF m2.mdMinResolution < 0 \/ m2.mdMaxResolution < 0
        THEN Thrown(m2)
        ELSE IF m2.mdMaxResolution < m2.mdMinResolution
        THEN Thrown(m2)
        ELSE Returned(m2)

ValidatePvlFromEdge(mm, p) ==
    LET m1 == IF HasKeyword(p, "PixelsFromEdge")
              THEN [mm EXCEPT !.miPixelsFromEdge =
                       IF p["PixelsFromEdge"] < 0 THEN 0 ELSE p["PixelsFromEdge"]]
              ELSE mm
        m2 == IF HasKeyword(p, "MetersFromEdge")
              THEN [m1 EXCEPT !.mdMetersFromEdge =
                       IF p["MetersFromEdge"] < 0 THEN 0 ELSE p["MetersFromEdge"]]
              ELSE m1
    IN  Returned(m2)

ValidatePvlResidualTolerances_LineNotCounted(mm, p) ==
    LET m1 == IF HasKeyword(p, "SampleResidual")
              THEN [mm EXCEPT !.mdSampleResTolerance = p["SampleResidual"]] ELSE mm
        m2 == IF HasKeyword(p, "LineResidual")
              THEN [m1 EXCEPT !.mdLineResTolerance = p["LineResidual"]] ELSE m1
        m3 == IF HasKeyword(p, "ResidualMagnitude")
              THEN [m2 EXCEPT !.mdResidualTolerance = p["ResidualMagnitude"]] ELSE m2
        bRes    == HasKeyword(p, "SampleResidual")
        bResMag == HasKeyword(p, "ResidualMagnitude")
    IN  IF HasKeyword(p, "SampleResidual") /\ m1.mdSampleResTolerance < 0
        THEN Thrown(m1)
        ELSE IF HasKeyword(p, "LineResidual") /\ m2.mdLineResTolerance < 0
        THEN Thrown(m2)
        ELSE IF HasKeyword(p, "ResidualMagnitude") /\ m3.mdResidualTolerance < 0
        THEN Thrown(m3)
        ELSE IF bRes /\ bResMag
        THEN Thrown(m3)
        ELSE Returned(m3)

ValidatePvlResidualTolerances(mm, p) ==
    LET m1 == IF HasKeyword(p, "SampleResidual")
              THEN [mm EXCEPT !.mdSampleResTolerance = p["SampleResidual"]] ELSE mm
        m2 == IF HasKeyword(p, "LineResidual")
              THEN [m1 EXCEPT !.mdLineResTolerance = p["LineResidual"]] ELSE m1
        m3 == IF HasKeyword(p, "ResidualMagnitude")
              THEN [m2 EXCEPT !.mdResidualTolerance = p["ResidualMagnitude"]] ELSE m2
        bRes    == HasKeyword(p, "SampleResidual") \/ HasKeyword(p, "LineResidual")
        bResMag == HasKeyword(p, "ResidualMagnitude")
    IN  IF HasKeyword(p, "SampleResidual") /\ m1.mdSampleResTolerance < 0
        THEN Thrown(m1)
        ELSE IF HasKeyword(p, "LineResidual") /\ m2.mdLineResTolerance < 0
        THEN Thrown(m2)
        ELSE IF HasKeyword(p, "ResidualMagnitude") /\ m3.mdResidualTolerance < 0
        THEN Thrown(m3)
        ELSE IF bRes /\ bResMag
        THEN Thrown(m3)
        ELSE Returned(m3)

\* Parse: the six methods in the order of lines 128-133, stopping at a throw
Parse(mm, p) ==
    LET r1 == ValidatePvlDN(mm, p)
        r2 == IF r1.ok THEN ValidatePvlEmissionAngle(r1.m, p) ELSE r1
        r3 == IF r2.ok THEN ValidatePvlIncidenceAngle(r2.m, p) ELSE r2
        r4 == IF r3.ok THEN ValidatePvlResolution(r3.m, p) ELSE r3
        r5 == IF r4.ok THEN ValidatePvlFromEdge(r4.m, p) ELSE r4
    IN  IF r5.ok THEN ValidatePvlResidualTolerances(r5.m, p) ELSE r5


-----------------------------------------------------------------------------
(* The image and its camera.  Cube, Camera and Portal are collaborators of *)
(* the class: a cube is described by its size, by whether a camera can be  *)
(* created for it, by the positions at which a camera query throws and by  *)
(* the coefficients of its geometry; every query is a function of the cube *)
(* and of the position the camera was set to.  Positions are in half       *)
(* pixels.                                                                 *)

\* (int) x of a double x kept in half pixels: truncation towards zero
ToInt(x2) == IF x2 >= 0 THEN x2 \div 2 ELSE -((-x2) \div 2)

Samples(c) == c.Samples
Lines(c)   == c.Lines

\* pCube->Camera() throws
CameraFails(c) == ~c.camOK

\* camera->SetImage / PixelResolution at this position throws
CameraThrows(c, s2, l2) == <<s2, l2>> \in c.throwAt

EmissionAngle(c, s2, l2)   == c.em0 + c.dem * s2
IncidenceAngle(c, s2, l2)  == c.inc0 + c.dinc * l2
PixelResolution(c, s2, l2) == c.res0 + c.dres * ToInt(s2) + c.dresl * ToInt(l2)
\* the pixel read through the Portal at (pSample, pLine), band 1
DnValue(c, s2, l2)         == c.dn0 + c.ddn * ToInt(l2)

\* Isis::IsSpecial: the special pixels lie below ValidMinimum
IsSpecial(d) == d < ValidMinimum

-----------------------------------------------------------------------------
(* The checks of a point.                                                  *)

ValidEmissionAngle(mm, pdEmissionAngle) ==
    ~(pdEmissionAngle < mm.mdMinEmissionAngle \/ pdEmissionAngle > mm.mdMaxEmissionAngle)

ValidIncidenceAngle(mm, pdIncidenceAngle) ==
    ~(pdIncidenceAngle < mm.mdMinIncidenceAngle \/ pdIncidenceAngle > mm.mdMaxIncidenceAngle)

ValidDnValue(mm, pdDnValue) ==
    ~(IsSpecial(pdDnValue) \/ pdDnValue < mm.mdMinDN \/ pdDnValue > mm.mdMaxDN)

ValidResolution(mm, pdResolution) ==
    ~(pdResolution < mm.mdMinResolution \/ pdResolution > mm.mdMaxResolution)

\* MeasureValidationResults::addFailure: one record appended
Failure(check, args) == [check |-> check, args |-> args]

ValidResidualTolerances_GreaterOrEqual(mm, pdSampleResidual, pdLineResidual, pdResidualMagnitude, pResults) ==
    LET bS == pdSampleResidual >= mm.mdSampleResTolerance
        bL == pdLineResidual >= mm.mdLineResTolerance
        bM == pdResidualMagnitude >= mm.mdResidualTolerance
        r1 == IF bS THEN Append(pResults, Failure("SampleResidual", <<mm.mdSampleResTolerance>>))
                    ELSE pResults
        r2 == IF bL THEN Append(r1, Failure("LineResidual", <<mm.mdLineResTolerance>>))
                    ELSE r1
        r3 == IF bM THEN Append(r2, Failure("ResidualMagnitude", <<mm.mdResidualTolerance>>))
                    ELSE r2
    IN  [bFlag |-> ~(bS \/ bL \/ bM), results |-> r3]

ValidResidualTolerances(mm, pdSampleResidual, pdLineResidual, pdResidualMagnitude, pResults) ==
    LET bS == pdSampleResidual > mm.mdSampleResTolerance
        bL == pdLineResidual > mm.mdLineResTolerance
        bM == pdResidualMagnitude > mm.mdResidualTolerance
        r1 == IF bS THEN Append(pResults, Failure("SampleResidual", <<mm.mdSampleResTolerance>>))
                    ELSE pResults
        r2 == IF bL THEN Append(r1, Failure("LineResidual", <<mm.mdLineResTolerance>>))
                    ELSE r1
        r3 == IF bM THEN Append(r2, Failure("ResidualMagnitude", <<mm.mdResidualTolerance>>))
                    ELSE r2
    IN  [bFlag |-> ~(bS \/ bL \/ bM), results |-> r3]

PixelsFromEdge_FarSideLikeNearSide(mm, piSample, piLine, c) ==
    IF mm.miPixelsFromEdge <= 0 THEN TRUE
    ELSE IF (Samples(c) - piSample) <= mm.miPixelsFromEdge THEN FALSE
    ELSE IF (piSample - mm.miPixelsFromEdge) <= 0 THEN FALSE
    ELSE IF (Lines(c) - piLine) <= mm.miPixelsFromEdge THEN FALSE
    ELSE IF (piLine - mm.miPixelsFromEdge) <= 0 THEN FALSE
    ELSE TRUE

PixelsFromEdge(mm, piSample, piLine, c) ==
    IF mm.miPixelsFromEdge <= 0 THEN TRUE
    ELSE IF (Samples(c) - piSample) < mm.miPixelsFromEdge THEN FALSE
    ELSE IF (piSample - mm.miPixelsFromEdge) <= 0 THEN FALSE
    ELSE IF (Lines(c) - piLine) < mm.miPixelsFromEdge THEN FALSE
    ELSE IF (piLine - mm.miPixelsFromEdge) <= 0 THEN FALSE
    ELSE TRUE

\* The positions the four for loops of MetersFromEdge step to, in order.
\* test top:    for(line = piLine - 1; line > 0; line--)
TopPath(piSample, piLine, c) ==
    [k \in 1 .. (piLine - 1) |-> <<piSample, piLine - k>>]
\* test bottom: for(line = piLine + 1; line <= iNumLines; line++)
BottomPath_StopBeforeLast(piSample, piLine, c) ==
    [k \in 1 .. (Lines(c) - piLine - 1) |-> <<piSample, piLine + k>>]
BottomPath(piSample, piLine, c) ==
    [k \in 1 .. (Lines(c) - piLine) |-> <<piSample, piLine + k>>]
\* test left:   for(sample = piSample - 1; sample > 0; sample--)
LeftPath(piSample, piLine, c) ==
    [k \in 1 .. (piSample - 1) |-> <<piSample - k, piLine>>]
\* test right:  for(sample = piSample + 1; sample <= iNumSamples; sample++)
RightPath(piSample, piLine, c) ==
    [k \in 1 .. (Samples(c) - piSample) |-> <<piSample + k, piLine>>]

\* One for loop: from step i on, with resMetersTotal = total and n queries
\* issued so far.  pos is the position the camera is left at.
RECURSIVE Walk(_, _, _, _, _, _, _)
Walk(mm, c, path, i, total, n, pos) ==
    IF i > Len(path)
    THEN [bMinDistance |-> FALSE, thrown |-> FALSE, queries |-> n, pos |-> pos]
    ELSE LET s2 == 2 * path[i][1]
             l2 == 2 * path[i][2]
             resMetersTotal == total + PixelResolution(c, s2, l2)
         IN  IF CameraThrows(c, s2, l2)
             THEN [bMinDistance |-> FALSE, thrown |-> TRUE, queries |-> n + 1, pos |-> pos]
             ELSE IF resMetersTotal >= mm.mdMetersFromEdge
             THEN [bMinDistance |-> TRUE, thrown |-> FALSE, queries |-> n + 1,
                   pos |-> <<s2, l2>>]
             ELSE Walk(mm, c, path, i + 1, resMetersTotal, n + 1, <<s2, l2>>)

\* what MetersFromEdge gives back: its boolean, or a throw; the number of
\* camera queries it issued and where it left the camera
MetersResult_ThrowSwallowed(ret, thrown, w) ==
    [ret |-> ret, thrown |-> FALSE, queries |-> w.queries, pos |-> w.pos]

MetersResult(ret, thrown, w) ==
    [ret |-> ret, thrown |-> thrown, queries |-> w.queries, pos |-> w.pos]

\* the try block of MetersFromEdge (lines 648-712)
MetersWalk(mm, piSample, piLine, c, pos) ==
    IF CameraFails(c)
    THEN [ret |-> FALSE, thrown |-> TRUE, queries |-> 0, pos |-> pos]
    ELSE
    LET top    == Walk(mm, c, TopPath(piSample, piLine, c), 1, 0, 0, pos)
        bottom == Walk(mm, c, BottomPath(piSample, piLine, c), 1, 0, top.queries, top.pos)
        left   == Walk(mm, c, LeftPath(piSample, piLine, c), 1, 0, bottom.queries, bottom.pos)
        right  == Walk(mm, c, RightPath(piSample, piLine, c), 1, 0, left.queries, left.pos)
    IN  IF top.thrown \/ ~top.bMinDistance
        THEN MetersResult(FALSE, top.thrown, top)
        ELSE IF bottom.thrown \/ ~bottom.bMinDistance
        THEN MetersResult(FALSE, bottom.thrown, bottom)
        ELSE IF left.thrown \/ ~left.bMinDistance
        THEN MetersResult(FALSE, left.thrown, left)
        ELSE MetersResult(right.bMinDistance, right.thrown, right)

MetersFromEdge_WalksOnZero(mm, piSample, piLine, c, pos) ==
    IF mm.mdMetersFromEdge < 0
    THEN [ret |-> TRUE, thrown |-> FALSE, queries |-> 0, pos |-> pos]
    ELSE MetersWalk(mm, piSample, piLine, c, pos)

MetersFromEdge(mm, piSample, piLine, c, pos) ==
    IF mm.mdMetersFromEdge <= 0
    THEN [ret |-> TRUE, thrown |-> FALSE, queries |-> 0, pos |-> pos]
    ELSE MetersWalk(mm, piSample, piLine, c, pos)

\* a ControlMeasure handed to ValidStandardOptions, or NULL
NullMeasure == [null |-> TRUE, SampleResidual |-> 0, LineResidual |-> 0,
                ResidualMagnitude |-> 0]
Measure(sr, lr, rm) == [null |-> FALSE, SampleResidual |-> sr, LineResidual |-> lr,
                        ResidualMagnitude |-> rm]

CannotCreateCamera == "Cannot Create Camera for Image"

\* what ValidStandardOptions gives back: the results, or a throw
Results(failures) == [kind |-> "results", msg |-> "", failures |-> failures]
Throw(msg)        == [kind |-> "throw", msg |-> msg, failures |-> << >>]

Compute_ResidualsNotAssigned(mdd, c, pSample2, pLine2, pMeasure) ==
    [ mdEmissionAngle     |-> EmissionAngle(c, pSample2, pLine2),
      mdIncidenceAngle    |-> IncidenceAngle(c, pSample2, pLine2),
      mdResolution        |-> PixelResolution(c, pSample2, pLine2),
      mdSampleResidual    |-> mdd.mdSampleResidual,
      mdLineResidual      |-> mdd.mdLineResidual,
      mdResidualMagnitude |-> mdd.mdResidualMagnitude,
      mdDnValue           |-> DnValue(c, pSample2, pLine2) ]

\* lines 164-178: the members assigned from the camera, the measure and the cube
Compute(mdd, c, pSample2, pLine2, pMeasure) ==
    [ mdEmissionAngle     |-> EmissionAngle(c, pSample2, pLine2),
      mdIncidenceAngle    |-> IncidenceAngle(c, pSample2, pLine2),
      mdResolution        |-> PixelResolution(c, pSample2, pLine2),
      mdSampleResidual    |-> IF pMeasure.null THEN mdd.mdSampleResidual
                                               ELSE pMeasure.SampleResidual,
      mdLineResidual      |-> IF pMeasure.null THEN mdd.mdLineResidual
                                               ELSE pMeasure.LineResidual,
      mdResidualMagnitude |-> IF pMeasure.null THEN mdd.mdResidualMagnitude
                                               ELSE pMeasure.ResidualMagnitude,
      mdDnValue           |-> DnValue(c, pSample2, pLine2) ]

ScalarChecks_StopAtFirst(mm, d) ==
    LET f1 == IF ~ValidEmissionAngle(mm, d.mdEmissionAngle)
              THEN << Failure("EmissionAngle",
                        <<d.mdEmissionAngle, mm.mdMinEmissionAngle, mm.mdMaxEmissionAngle>>) >>
              ELSE << >>
        f2 == IF f1 = << >> /\ ~ValidIncidenceAngle(mm, d.mdIncidenceAngle)
              THEN << Failure("IncidenceAngle",
                        <<d.mdIncidenceAngle, mm.mdMinIncidenceAngle, mm.mdMaxEmissionAngle>>) >>
              ELSE << >>
        f3 == IF f1 \o f2 = << >> /\ ~ValidDnValue(mm, d.mdDnValue)
              THEN << Failure("DNValue", <<d.mdDnValue, mm.mdMinDN, mm.mdMaxDN>>) >>
              ELSE << >>
        f4 == IF f1 \o f2 \o f3 = << >> /\ ~ValidResolution(mm, d.mdResolution)
              THEN << Failure("Resolution",
                        <<d.mdResolution, mm.mdMinResolution, mm.mdMaxResolution>>) >>
              ELSE << >>
    IN  f1 \o f2 \o f3 \o f4

\* lines 192-210: the four scalar checks, each on the member just assigned
ScalarChecks(mm, d) ==
    LET f1 == IF ~ValidEmissionAngle(mm, d.mdEmissionAngle)
              THEN << Failure("EmissionAngle",
                        <<d.mdEmissionAngle, mm.mdMinEmissionAngle, mm.mdMaxEmissionAngle>>) >>
              ELSE << >>
        f2 == IF ~ValidIncidenceAngle(mm, d.mdIncidenceAngle)
              THEN << Failure("IncidenceAngle",
                        <<d.mdIncidenceAngle, mm.mdMinIncidenceAngle, mm.mdMaxEmissionAngle>>) >>
              ELSE << >>
        f3 == IF ~ValidDnValue(mm, d.mdDnValue)
              THEN << Failure("DNValue", <<d.mdDnValue, mm.mdMinDN, mm.mdMaxDN>>) >>
              ELSE << >>
        f4 == IF ~ValidResolution(mm, d.mdResolution)
              THEN << Failure("Resolution",
                        <<d.mdResolution, mm.mdMinResolution, mm.mdMaxResolution>>) >>
              ELSE << >>
    IN  f1 \o f2 \o f3 \o f4

\* ValidStandardOptions(pSample, pLine, pMeasure, pCube, NULL) run alone on
\* a validator whose last computed members are mdd and whose cube's camera
\* stands at pos.  Gives back the outcome, the members and the camera as
\* they are left, and the number of camera queries of the meters walk.
ValidStandardOptions(mm, mdd, pSample2, pLine2, pMeasure, c, pos) ==
    IF CameraFails(c)
    THEN [out |-> Throw(CannotCreateCamera), md |-> mdd, pos |-> pos, queries |-> 0]
    ELSE IF CameraThrows(c, pSample2, pLine2)
    THEN [out |-> Throw("camera"), md |-> mdd, pos |-> pos, queries |-> 0]
    ELSE
    LET d   == Compute(mdd, c, pSample2, pLine2, pMeasure)
        f4  == ScalarChecks(mm, d)
        f5  == IF ~PixelsFromEdge(mm, ToInt(pSample2), ToInt(pLine2), c)
               THEN Append(f4, Failure("PixelsFromEdge", <<mm.miPixelsFromEdge>>))
               ELSE f4
        met == MetersFromEdge(mm, ToInt(pSample2), ToInt(pLine2), c, <<pSample2, pLine2>>)
        f6  == IF ~met.ret
               THEN Append(f5, Failure("MetersFromEdge", <<mm.mdMetersFromEdge>>))
               ELSE f5
        f7  == IF ~pMeasure.null
               THEN ValidResidualTolerances(mm, d.mdSampleResidual, d.mdLineResidual,
                                            d.mdResidualMagnitude, f6).results
               ELSE f6
    IN  [ out |-> IF met.thrown THEN Throw(CannotCreateCamera) ELSE Results(f7),
          md |-> d, pos |-> met.pos, queries |-> met.queries ]

-----------------------------------------------------------------------------
(* The construction as a state machine: one step per ValidatePvl* method,  *)
(* each reading its own keywords of the group.  A throw leaves the members *)
(* as they were assigned up to it.                                         *)

\* a positive value a definition file may give
CfgValue == 2

DNVals        == {1, ValidMaximum + 1}
AngleVals     == {MinAngle - 1, MinAngle, MaxAngle, MaxAngle + 1}
ResolutionVals == {-1, 0, CfgValue}
EdgeVals      == {-1, CfgValue}
ToleranceVals == {-1, 0}

AngleKeys    == {"MinEmission", "MaxEmission", "MinIncidence", "MaxIncidence"}
ResidualKeys == {"SampleResidual", "LineResidual", "ResidualMagnitude"}

\* the members mdEmissionAngle .. mdResidualMagnitude are assigned by no
\* constructor: the residuals hold whatever the memory held (a value below
\* or a value above every tolerance of the checks), the other four are
\* assigned (lines 166-178) before anything reads them
UninitVals == {0, 9}

MdUninit ==
    { [ mdEmissionAngle |-> 0, mdIncidenceAngle |-> 0, mdResolution |-> 0,
        mdDnValue |-> 0, mdSampleResidual |-> a, mdLineResidual |-> a,
        mdResidualMagnitude |-> a ] : a \in UninitVals }

NoMd == [ mdEmissionAngle |-> 0, mdIncidenceAngle |-> 0, mdResolution |-> 0,
          mdDnValue |-> 0, mdSampleResidual |-> 0, mdLineResidual |-> 0,
          mdResidualMagnitude |-> 0 ]

NoCall == [ op |-> "none" ]

InitParse ==
    /\ pc = "new"
    /\ pvl = EmptyGroup
    /\ m = InitStdOptions
    /\ md = NoMd
    /\ cam = << >>
    /\ call = NoCall
    /\ th = << >>

\* ControlNetValidMeasure(Pvl *pPvl) with pPvl == 0: the defaults stand
ConstructDefault ==
    /\ pc = "new"
    /\ pc' = "constructed"
    /\ UNCHANGED <<pvl, m, md, cam, call, th>>

\* either constructor with a Pvl: Parse is entered
ParseBegin ==
    /\ pc = "new"
    /\ pc' = "ValidatePvlDN"
    /\ UNCHANGED <<pvl, m, md, cam, call, th>>

ParseStep(self, next, r, p) ==
    /\ pvl' = p
    /\ m' = r.m
    /\ pc' = IF r.ok THEN next ELSE "thrown"
    /\ call' = [op |-> self]
    /\ UNCHANGED <<md, cam, th>>

StepValidatePvlDN ==
    /\ pc = "ValidatePvlDN"
    /\ \E g \in Groups({"MinDN", "MaxDN"}, DNVals) :
          ParseStep("ValidatePvlDN", "ValidatePvlEmissionAngle",
                    ValidatePvlDN(m, pvl @@ g), pvl @@ g)

StepValidatePvlEmissionAngle ==
    /\ pc = "ValidatePvlEmissionAngle"
    /\ \E g \in Groups({"MinEmission", "MaxEmission"}, AngleVals) :
          ParseStep("ValidatePvlEmissionAngle", "ValidatePvlIncidenceAngle",
                    ValidatePvlEmissionAngle(m, pvl @@ g), pvl @@ g)

StepValidatePvlIncidenceAngle ==
    /\ pc = "ValidatePvlIncidenceAngle"
    /\ \E g \in Groups({"MinIncidence", "MaxIncidence"}, AngleVals) :
          ParseStep("ValidatePvlIncidenceAngle", "ValidatePvlResolution",
                    ValidatePvlIncidenceAngle(m, pvl @@ g), pvl @@ g)

StepValidatePvlResolution ==
    /\ pc = "ValidatePvlResolution"
    /\ \E g \in Groups({"MinResolution", "MaxResolution"}, ResolutionVals) :
          ParseStep("ValidatePvlResolution", "ValidatePvlFromEdge",
                    ValidatePvlResolution(m, pvl @@ g), pvl @@ g)

StepValidatePvlFromEdge ==
    /\ pc = "ValidatePvlFromEdge"
    /\ \E g \in Groups({"PixelsFromEdge", "MetersFromEdge"}, EdgeVals) :
          ParseStep("ValidatePvlFromEdge", "ValidatePvlResidualTolerances",
                    ValidatePvlFromEdge(m, pvl @@ g), pvl @@ g)

StepValidatePvlResidualTolerances ==
    /\ pc = "ValidatePvlResidualTolerances"
    /\ \E g \in Groups(ResidualKeys, ToleranceVals) :
          ParseStep("ValidatePvlResidualTolerances", "constructed",
                    ValidatePvlResidualTolerances(m, pvl @@ g), pvl @@ g)

NextParse ==
    \/ ConstructDefault
    \/ ParseBegin
    \/ StepValidatePvlDN
    \/ StepValidatePvlEmissionAngle
    \/ StepValidatePvlIncidenceAngle
    \/ StepValidatePvlResolution
    \/ StepValidatePvlFromEdge
    \/ StepValidatePvlResidualTolerances

SpecParse == InitParse /\ [][NextParse]_vars

Constructed == pc = "constructed"
Failed      == pc = "thrown"
\* the method whose throw ended the construction
ThrownBy(name) == Failed /\ call.op = name

Configured(k) == HasKeyword(pvl, k)

-----------------------------------------------------------------------------
(* C1: a construction that does not fail ends with min <= max in each of   *)
(* the four range families (DN, emission, incidence, resolution), also     *)
(* when one bound is configured and the other one is the default.          *)
C1_MinLeMax ==
    Constructed =>
        /\ m.mdMinDN <= m.mdMaxDN
        /\ m.mdMinEmissionAngle <= m.mdMaxEmissionAngle
        /\ m.mdMinIncidenceAngle <= m.mdMaxIncidenceAngle
        /\ m.mdMinResolution <= m.mdMaxResolution

\* constructed with one bound of a family configured and the other defaulted
C1_Witness ==
    /\ Constructed
    /\ Configured("MinEmission") /\ ~Configured("MaxEmission")
    /\ pvl["MinEmission"] = 135
    /\ Configured("MaxResolution") /\ ~Configured("MinResolution")

(* C2: a construction that does not fail ends with the four angle bounds   *)
(* inside [0, 135], and a configured angle bound below 0 or above 135      *)
(* always makes the construction fail.                                     *)
C2_AnglesInRange ==
    /\ Constructed =>
          \A v \in { m.mdMinEmissionAngle, m.mdMaxEmissionAngle,
                     m.mdMinIncidenceAngle, m.mdMaxIncidenceAngle } :
              0 <= v /\ v <= 135
    /\ \A k \in AngleKeys :
          (Configured(k) /\ (pvl[k] < 0 \/ pvl[k] > 135)) => Failed

C2_Witness ==
    /\ ThrownBy("ValidatePvlIncidenceAngle")
    /\ Configured("MaxIncidence") /\ pvl["MaxIncidence"] = 136
    /\ ~Configured("MinIncidence")

(* C3: the construction fails whenever ResidualMagnitude is configured     *)
(* together with SampleResidual or LineResidual, whatever the values; with *)
(* one family only, ValidatePvlResidualTolerances throws for a negative    *)
(* tolerance and for nothing else.                                         *)
BothResidualFamilies ==
    /\ Configured("ResidualMagnitude")
    /\ Configured("SampleResidual") \/ Configured("LineResidual")

C3_ResidualFamiliesExclusive ==
    /\ BothResidualFamilies => Failed
    /\ (ThrownBy("ValidatePvlResidualTolerances") /\ ~BothResidualFamilies) =>
          \E k \in ResidualKeys : Configured(k) /\ pvl[k] < 0

C3_Witness ==
    /\ ThrownBy("ValidatePvlResidualTolerances")
    /\ Configured("LineResidual") /\ Configured("ResidualMagnitude")
    /\ ~Configured("SampleResidual")
    /\ pvl["LineResidual"] >= 0 /\ pvl["ResidualMagnitude"] >= 0

(* C10: the construction fails whenever a configured MinResolution,        *)
(* MaxResolution, SampleResidual, LineResidual or ResidualMagnitude is     *)
(* negative; after a construction that did not fail the five are >= 0.     *)
C10_NonNegative ==
    /\ \A k \in {"MinResolution", "MaxResolution"} \cup ResidualKeys :
          (Configured(k) /\ pvl[k] < 0) => Failed
    /\ Constructed =>
          /\ m.mdMinResolution >= 0 /\ m.mdMaxResolution >= 0
          /\ m.mdSampleResTolerance >= 0 /\ m.mdLineResTolerance >= 0
          /\ m.mdResidualTolerance >= 0

C10_Witness ==
    /\ ThrownBy("ValidatePvlResolution")
    /\ Configured("MinResolution") /\ pvl["MinResolution"] < 0
    /\ ~Configured("MaxResolution")

-----------------------------------------------------------------------------
(* Arithmetic of the edge checks, stated on positions and sums directly.   *)

Directions == {"top", "bottom", "left", "right"}

\* the position k steps away from (s, l) in a direction
StepPos(dir, s, l, k) ==
    CASE dir = "top"    -> <<s, l - k>>
      [] dir = "bottom" -> <<s, l + k>>
      [] dir = "left"   -> <<s - k, l>>
      [] dir = "right"  -> <<s + k, l>>

\* the ground resolution the camera reports k steps away
StepRes(c, dir, s, l, k) ==
    PixelResolution(c, 2 * StepPos(dir, s, l, k)[1], 2 * StepPos(dir, s, l, k)[2])

\* the sum of the resolutions of the first k steps
RECURSIVE SumRes(_, _, _, _, _)
SumRes(c, dir, s, l, k) ==
    IF k <= 0 THEN 0 ELSE SumRes(c, dir, s, l, k - 1) + StepRes(c, dir, s, l, k)

\* steps down to line or sample 1 and up to the last line or sample,
\* Lines or Samples, included
StepsOnImage(c, dir, s, l) ==
    CASE dir = "top"    -> l - 1
      [] dir = "bottom" -> Lines(c) - l
      [] dir = "left"   -> s - 1
      [] dir = "right"  -> Samples(c) - s

\* steps before a boundary at line or sample <= 0 and >= Lines or Samples
StepsBeforeBoundary(c, dir, s, l) ==
    CASE dir = "top"    -> l - 1
      [] dir = "bottom" -> Lines(c) - l - 1
      [] dir = "left"   -> s - 1
      [] dir = "right"  -> Samples(c) - s - 1

\* the running sum reaches the margin within `steps` steps
Reaches(c, dir, s, l, margin, steps) ==
    \E k \in 1 .. steps : SumRes(c, dir, s, l, k) >= margin

CeilDiv(a, b) == (a + b - 1) \div b

\* a step of the walk in a direction is at a position where the camera throws
ThrowsIn(c, dir, s, l, margin) ==
    \E k \in 1 .. StepsOnImage(c, dir, s, l) :
        /\ \A j \in 1 .. (k - 1) : SumRes(c, dir, s, l, j) < margin
        /\ CameraThrows(c, 2 * StepPos(dir, s, l, k)[1], 2 * StepPos(dir, s, l, k)[2])

\* the direction is walked to its end without a throw and with the margin reached
Passes(c, dir, s, l, margin) ==
    /\ ~ThrowsIn(c, dir, s, l, margin)
    /\ Reaches(c, dir, s, l, margin, StepsOnImage(c, dir, s, l))

\* the walk top, bottom, left, right steps onto a throwing position
WalkThrows(c, s, l, margin) ==
    /\ margin > 0
    /\ \/ ThrowsIn(c, "top", s, l, margin)
       \/ /\ Passes(c, "top", s, l, margin)
          /\ \/ ThrowsIn(c, "bottom", s, l, margin)
             \/ /\ Passes(c, "bottom", s, l, margin)
                /\ \/ ThrowsIn(c, "left", s, l, margin)
                   \/ /\ Passes(c, "left", s, l, margin)
                      /\ ThrowsIn(c, "right", s, l, margin)

-----------------------------------------------------------------------------
(* Cubes of the checks.                                                    *)

BaseCube ==
    [ name |-> "base", Samples |-> 3, Lines |-> 3, camOK |-> TRUE, throwAt |-> {},
      em0 |-> 30, dem |-> 0, inc0 |-> 30, dinc |-> 0,
      res0 |-> 10, dres |-> 0, dresl |-> 0, dn0 |-> 0, ddn |-> 0 ]

-----------------------------------------------------------------------------
(* PixelsFromEdge on its own: a validator constructed with some            *)
(* PixelsFromEdge keyword, called with points of a small and of a 100x100  *)
(* image.                                                                  *)

MaxPixelMargin == 2
MaxPixelCoord  == 5

PixelMargins == (-1 .. MaxPixelMargin) \cup {5}
PixelCoords  == (0 .. MaxPixelCoord) \cup {6, 50, 94, 95, 96, 100, 101}
PixelCubes   ==
    { [BaseCube EXCEPT !.name = "small", !.Samples = 4, !.Lines = 3],
      [BaseCube EXCEPT !.name = "100x100", !.Samples = 100, !.Lines = 100] }

InitPixels ==
    /\ pc = "constructed"
    /\ pvl \in Groups({"PixelsFromEdge"}, PixelMargins)
    /\ m = Parse(InitStdOptions, pvl).m
    /\ md = NoMd
    /\ cam = << >>
    /\ call = NoCall
    /\ th = << >>

CallPixelsFromEdge ==
    /\ pc = "constructed"
    /\ \E c \in PixelCubes, s \in PixelCoords, l \in PixelCoords :
          call' = [ op |-> "PixelsFromEdge", piSample |-> s, piLine |-> l, cube |-> c,
                    ret |-> PixelsFromEdge(m, s, l, c) ]
    /\ UNCHANGED <<pc, pvl, m, md, cam, th>>

NextPixels == CallPixelsFromEdge

SpecPixels == InitPixels /\ [][NextPixels]_vars

(* C6: with a margin > 0 PixelsFromEdge fails iff one of                   *)
(* numSamples - sample < margin, sample - margin <= 0,                     *)
(* numLines - line < margin, line - margin <= 0 holds, that is it passes   *)
(* exactly when margin < sample <= numSamples - margin and                 *)
(* margin < line <= numLines - margin; on a 100x100 image with margin 5    *)
(* sample 5 fails, 6 passes, 95 passes, 96 fails.                          *)
C6_PixelsFromEdge ==
    (call.op = "PixelsFromEdge" /\ m.miPixelsFromEdge > 0) =>
        LET mg == m.miPixelsFromEdge
            s  == call.piSample
            l  == call.piLine
            nS == call.cube.Samples
            nL == call.cube.Lines
        IN  /\ ~call.ret <=> \/ nS - s < mg
                             \/ s - mg <= 0
                             \/ nL - l < mg
                             \/ l - mg <= 0
            /\ call.ret <=> /\ mg < s /\ s <= nS - mg
                            /\ mg < l /\ l <= nL - mg
            /\ (nS = 100 /\ nL = 100 /\ mg = 5 /\ l = 50) =>
                  /\ s = 5  => ~call.ret
                  /\ s = 6  => call.ret
                  /\ s = 95 => call.ret
                  /\ s = 96 => ~call.ret

C6_Witness ==
    /\ call.op = "PixelsFromEdge"
    /\ m.miPixelsFromEdge = 5
    /\ call.cube.Samples = 100 /\ call.cube.Lines = 100
    /\ call.piSample = 95 /\ call.piLine = 50
    /\ call.ret

-----------------------------------------------------------------------------
(* MetersFromEdge on its own: a validator constructed with some            *)
(* MetersFromEdge keyword, called again and again with points of one cube. *)

MaxMeterCoord == 8

MeterMargins == {-1, 0, 10, 25}
MeterCoords  == 0 .. MaxMeterCoord
MeterCubes   ==
    { \* every pixel 10 meters wide
      [BaseCube EXCEPT !.name = "const10", !.Samples = 7, !.Lines = 7],
      \* pixels that grow along the samples and along the lines
      [BaseCube EXCEPT !.name = "oblique", !.Samples = 5, !.Lines = 4,
                       !.res0 = 2, !.dres = 3, !.dresl = 4],
      \* a camera that throws at two pixels
      [BaseCube EXCEPT !.name = "throws", !.Samples = 4, !.Lines = 5,
                       !.throwAt = {<<2, 4>>, <<6, 8>>}],
      \* no camera
      [BaseCube EXCEPT !.name = "nocamera", !.camOK = FALSE] }

InitMeters ==
    /\ pc = "constructed"
    /\ pvl \in Groups({"MetersFromEdge"}, MeterMargins)
    /\ m = Parse(InitStdOptions, pvl).m
    /\ md = NoMd
    /\ cam \in { [cube |-> c, pos |-> <<0, 0>>] : c \in MeterCubes }
    /\ call = NoCall
    /\ th = << >>

CallMetersFromEdge ==
    /\ pc = "constructed"
    /\ \E s \in MeterCoords, l \in MeterCoords :
          \E r \in {MetersFromEdge(m, s, l, cam.cube, cam.pos)} :
              /\ call' = [ op |-> "MetersFromEdge", piSample |-> s, piLine |-> l,
                           cube |-> cam.cube, ret |-> r.ret, thrown |-> r.thrown,
                           queries |-> r.queries ]
              /\ cam' = [cam EXCEPT !.pos = r.pos]
    /\ UNCHANGED <<pc, pvl, m, md, th>>

NextMeters == CallMetersFromEdge

SpecMeters == InitMeters /\ [][NextMeters]_vars

MetersReturned ==
    call.op = "MetersFromEdge" /\ m.mdMetersFromEdge > 0 /\ ~call.thrown

ConstantResolution(c) == c.dres = 0 /\ c.dresl = 0

(* C5 as claimed: with a margin m > 0 MetersFromEdge passes iff in each of *)
(* the four directions the running sum of the per-step resolutions reaches *)
(* m at a step taken before the boundary, the boundary being line or       *)
(* sample <= 0 towards the origin and line >= numLines or                  *)
(* sample >= numSamples towards the far side.                              *)
C5_AsClaimed ==
    MetersReturned =>
        (call.ret <=>
            \A dir \in Directions :
                Reaches(call.cube, dir, call.piSample, call.piLine, m.mdMetersFromEdge,
                        StepsBeforeBoundary(call.cube, dir, call.piSample, call.piLine)))

(* C5 as amended: with a margin m > 0 MetersFromEdge, when it returns,     *)
(* passes iff in each of the four directions the running sum of the        *)
(* per-step resolutions, started at 0 for that direction, reaches m at a   *)
(* step taken before the walk ends, the walk ending at line or sample <= 0 *)
(* towards the origin and at line > numLines or sample > numSamples        *)
(* towards the far side: the step onto the last line and onto the last     *)
(* sample is taken and counted.  With a constant resolution r it passes    *)
(* iff ceil(m/r) such steps exist in every direction; r = 10, m = 25 needs *)
(* 3 steps.                                                                *)
C5_MetersFromEdge ==
    MetersReturned =>
        LET c  == call.cube
            s  == call.piSample
            l  == call.piLine
            mg == m.mdMetersFromEdge
        IN  /\ call.ret <=>
                  \A dir \in Directions :
                      Reaches(c, dir, s, l, mg, StepsOnImage(c, dir, s, l))
            /\ ConstantResolution(c) =>
                  (call.ret <=>
                      \A dir \in Directions :
                          StepsOnImage(c, dir, s, l) >= CeilDiv(mg, c.res0))
            /\ (ConstantResolution(c) /\ c.res0 = 10 /\ mg = 25) =>
                  (call.ret <=> \A dir \in Directions : StepsOnImage(c, dir, s, l) >= 3)

\* r = 10, m = 25 on the 7x7 cube: the centre has exactly 3 steps to every
\* side, the third one onto the last line and the last sample, and passes
C5_Witness ==
    /\ MetersReturned
    /\ call.cube.name = "const10" /\ m.mdMetersFromEdge = 25
    /\ call.piSample = 4 /\ call.piLine = 4
    /\ call.ret /\ call.queries = 12

-----------------------------------------------------------------------------
(* The validator in use: constructed from a definition file, then asked    *)
(* about point after point of one cube, with and without a measure.        *)

MaxEvalCoord == 3

\* positions in half pixels: the pixels 0 .. MaxEvalCoord and 1.5
EvalCoords2 == {2 * k : k \in 0 .. MaxEvalCoord} \cup {3}

EvalCubes ==
    { \* angles and pixels that grow along the image, a special pixel on line 0
      [BaseCube EXCEPT !.name = "A", !.em0 = 0, !.dem = 15, !.inc0 = 0, !.dinc = 20,
                       !.dresl = 3, !.dn0 = -5, !.ddn = 2],
      \* pixels that grow along the samples, a camera that throws at pixel (1, 2)
      [BaseCube EXCEPT !.name = "B", !.Samples = 4, !.res0 = 5, !.dres = 5,
                       !.throwAt = {<<2, 4>>}],
      \* no camera
      [BaseCube EXCEPT !.name = "C", !.camOK = FALSE] }

EvalMeasures ==
    { NullMeasure, Measure(2, 2, 2), Measure(3, 2, 2), Measure(2, 3, 2), Measure(3, 3, 3) }

RangeGroup ==
    [ MinEmission |-> 10, MaxEmission |-> 50, MinIncidence |-> 10, MaxIncidence |-> 60,
      MinDN |-> -1, MaxDN |-> 1, MinResolution |-> 10, MaxResolution |-> 14 ]

EvalPvls ==
    { EmptyGroup,
      [PixelsFromEdge |-> -1, MetersFromEdge |-> -1],
      RangeGroup @@ [PixelsFromEdge |-> 1, MetersFromEdge |-> 10,
                     SampleResidual |-> 2, LineResidual |-> 2],
      RangeGroup @@ [PixelsFromEdge |-> 0, MetersFromEdge |-> 0, ResidualMagnitude |-> 2],
      [MetersFromEdge |-> 15, ResidualMagnitude |-> 2],
      \* a definition file the constructor rejects
      [MinResolution |-> -1] }

InitEval ==
    /\ pvl \in EvalPvls
    /\ m = Parse(InitStdOptions, pvl).m
    /\ pc = IF Parse(InitStdOptions, pvl).ok THEN "constructed" ELSE "thrown"
    /\ md \in MdUninit
    /\ cam \in { [cube |-> c, pos |-> <<0, 0>>] : c \in EvalCubes }
    /\ call = NoCall
    /\ th = << >>

CallValidStandardOptions ==
    /\ pc = "constructed"
    /\ \E s2 \in EvalCoords2, l2 \in EvalCoords2, pMeasure \in EvalMeasures :
          \E r \in {ValidStandardOptions(m, md, s2, l2, pMeasure, cam.cube, cam.pos)} :
              /\ call' = [ op |-> "ValidStandardOptions", pSample2 |-> s2, pLine2 |-> l2,
                           pMeasure |-> pMeasure, cube |-> cam.cube,
                           out |-> r.out, queries |-> r.queries ]
              /\ md' = r.md
              /\ cam' = [cam EXCEPT !.pos = r.pos]
    /\ UNCHANGED <<pc, pvl, m, th>>

NextEval == CallValidStandardOptions

SpecEval == InitEval /\ [][NextEval]_vars

Evaluated == call.op = "ValidStandardOptions"
Returned_Results == Evaluated /\ call.out.kind = "results"

\* the names of the checks recorded, in the order recorded
Recorded == [i \in 1 .. Len(call.out.failures) |-> call.out.failures[i].check]

CheckOrder ==
    << "EmissionAngle", "IncidenceAngle", "DNValue", "Resolution", "PixelsFromEdge",
       "MetersFromEdge", "SampleResidual", "LineResidual", "ResidualMagnitude" >>

\* the constraint of a check is violated by the point of the last call
\* (the edge constraints as settled by C5 and C6)
Violated(check) ==
    LET c  == call.cube
        s2 == call.pSample2
        l2 == call.pLine2
        s  == ToInt(s2)
        l  == ToInt(l2)
        ms == call.pMeasure
    IN  CASE check = "EmissionAngle" ->
                 \/ EmissionAngle(c, s2, l2) < m.mdMinEmissionAngle
                 \/ EmissionAngle(c, s2, l2) > m.mdMaxEmissionAngle
          [] check = "IncidenceAngle" ->
                 \/ IncidenceAngle(c, s2, l2) < m.mdMinIncidenceAngle
                 \/ IncidenceAngle(c, s2, l2) > m.mdMaxIncidenceAngle
          [] check = "DNValue" ->
                 \/ IsSpecial(DnValue(c, s2, l2))
                 \/ DnValue(c, s2, l2) < m.mdMinDN
                 \/ DnValue(c, s2, l2) > m.mdMaxDN
          [] check = "Resolution" ->
                 \/ PixelResolution(c, s2, l2) < m.mdMinResolution
                 \/ PixelResolution(c, s2, l2) > m.mdMaxResolution
          [] check = "PixelsFromEdge" ->
                 /\ m.miPixelsFromEdge > 0
                 /\ ~ /\ m.miPixelsFromEdge < s /\ s <= c.Samples - m.miPixelsFromEdge
                      /\ m.miPixelsFromEdge < l /\ l <= c.Lines - m.miPixelsFromEdge
          [] check = "MetersFromEdge" ->
                 /\ m.mdMetersFromEdge > 0
                 /\ \E dir \in Directions :
                       ~Reaches(c, dir, s, l, m.mdMetersFromEdge, StepsOnImage(c, dir, s, l))
          [] check = "SampleResidual" ->
                 ~ms.null /\ ms.SampleResidual > m.mdSampleResTolerance
          [] check = "LineResidual" ->
                 ~ms.null /\ ms.LineResidual > m.mdLineResTolerance
          [] check = "ResidualMagnitude" ->
                 ~ms.null /\ ms.ResidualMagnitude > m.mdResidualTolerance

(* C4: the failure list of the results ValidStandardOptions returns is     *)
(* exactly the sub-sequence of Emission, Incidence, DNValue, Resolution,   *)
(* PixelsFromEdge, MetersFromEdge, SampleResidual, LineResidual,           *)
(* ResidualMagnitude made of the checks whose constraint is violated.      *)
C4_FailureOrder ==
    Returned_Results => Recorded = SelectSeq(CheckOrder, Violated)

\* an emission failure does not keep the later failures from the list
C4_Witness ==
    /\ Returned_Results
    /\ Len(Recorded) >= 7
    /\ Recorded[1] = "EmissionAngle"
    /\ Recorded[Len(Recorded)] = "LineResidual"

PixelsOff == ~Configured("PixelsFromEdge") \/ pvl["PixelsFromEdge"] <= 0
MetersOff == ~Configured("MetersFromEdge") \/ pvl["MetersFromEdge"] <= 0

(* C7: with PixelsFromEdge and MetersFromEdge left out, 0 or negative, the *)
(* construction does not fail for them, no call records a PixelsFromEdge   *)
(* or a MetersFromEdge failure, and the meters walk queries no camera.     *)
C7_EdgeChecksOff ==
    /\ (DOMAIN pvl \subseteq {"PixelsFromEdge", "MetersFromEdge"}) => Constructed
    /\ (Constructed /\ PixelsOff) => m.miPixelsFromEdge = 0
    /\ (Constructed /\ MetersOff) => m.mdMetersFromEdge = 0
    /\ (Evaluated /\ PixelsOff) =>
          \A i \in 1 .. Len(Recorded) : Recorded[i] # "PixelsFromEdge"
    /\ (Evaluated /\ MetersOff) =>
          /\ \A i \in 1 .. Len(Recorded) : Recorded[i] # "MetersFromEdge"
          /\ call.queries = 0

\* negative margins, a point outside the image: results without a failure
C7_Witness ==
    /\ Returned_Results
    /\ Configured("PixelsFromEdge") /\ pvl["PixelsFromEdge"] < 0
    /\ Configured("MetersFromEdge") /\ pvl["MetersFromEdge"] < 0
    /\ call.pSample2 = 0 /\ call.pLine2 = 0
    /\ call.cube.name = "B"
    /\ Recorded = << >>

(* C8: ValidStandardOptions ends with a throw, and gives no results back,  *)
(* exactly when no camera can be had for the cube, at its start or at a    *)
(* position the meters walk steps to; whatever thresholds the point        *)
(* violates, it gives results back.                                        *)
C8_CameraErrorPropagates ==
    Evaluated =>
        /\ call.out.kind = "throw" <=>
              \/ CameraFails(call.cube)
              \/ CameraThrows(call.cube, call.pSample2, call.pLine2)
              \/ WalkThrows(call.cube, ToInt(call.pSample2), ToInt(call.pLine2),
                            m.mdMetersFromEdge)
        /\ call.out.kind = "throw" => call.out.failures = << >>
        /\ call.out.kind \in {"throw", "results"}

\* a throw in the walk, after the resolution check failed at the point
C8_Witness ==
    /\ Evaluated
    /\ call.out.kind = "throw"
    /\ ~CameraFails(call.cube)
    /\ call.queries > 0
    /\ Violated("Resolution")

\* what the last call gives back on a validator and a camera no call has
\* used before: nothing left in the members, the camera set nowhere
OnFreshValidator ==
    ValidStandardOptions(m, NoMd, call.pSample2, call.pLine2, call.pMeasure,
                         call.cube, <<0, 0>>).out

(* C11: what ValidStandardOptions gives back depends on its arguments and  *)
(* on the options only, not on what earlier calls left in the validator or *)
(* in the camera: after any calls it gives back what the same call gives   *)
(* on a fresh validator, so two calls with the same arguments, with any    *)
(* calls in between, give back the same.                                   *)
C11_SameInputsSameResults ==
    Evaluated => call.out = OnFreshValidator

\* a call without a measure on a validator whose residual members were left
\* above the tolerances by an earlier call with a measure; the camera was
\* left away from the point by the walk
C11_Witness ==
    /\ Returned_Results
    /\ call.pMeasure.null
    /\ Configured("SampleResidual")
    /\ md.mdSampleResidual = 3 /\ md.mdLineResidual = 3
    /\ cam.pos # <<call.pSample2, call.pLine2>>
    /\ call.queries > 0

\* the failures of a check in the results of the last call
FailuresOf(check) ==
    { call.out.failures[i] : i \in { j \in 1 .. Len(call.out.failures) :
                                         call.out.failures[j].check = check } }

(* C12: whenever the incidence angle is out of range, the Incidence Angle  *)
(* failure recorded carries the measured incidence angle and the two       *)
(* bounds of the incidence range, minIncidence and maxIncidence, and no    *)
(* bound of another family.                                                *)
C12_IncidenceFailureBounds ==
    (Returned_Results /\ Violated("IncidenceAngle")) =>
        FailuresOf("IncidenceAngle") =
            { Failure("IncidenceAngle",
                  << IncidenceAngle(call.cube, call.pSample2, call.pLine2),
                     m.mdMinIncidenceAngle, m.mdMaxIncidenceAngle >>) }

-----------------------------------------------------------------------------
(* The residual tolerances: a validator constructed with some of them,     *)
(* asked about points with and without a measure, and its                  *)
(* ValidResidualTolerances called with residuals of the caller's.          *)

ResidualPvls ==
    { EmptyGroup,
      [SampleResidual |-> 2],
      [LineResidual |-> 2],
      [SampleResidual |-> 2, LineResidual |-> 2],
      [ResidualMagnitude |-> 2],
      \* a definition file the constructor rejects
      [SampleResidual |-> 2, ResidualMagnitude |-> 2] }

InitResidual ==
    /\ pvl \in ResidualPvls
    /\ m = Parse(InitStdOptions, pvl).m
    /\ pc = IF Parse(InitStdOptions, pvl).ok THEN "constructed" ELSE "thrown"
    /\ md \in MdUninit
    /\ cam \in { [cube |-> c, pos |-> <<0, 0>>] : c \in {c \in EvalCubes : c.name = "A"} }
    /\ call = NoCall
    /\ th = << >>

\* residual values and results already holding a failure, for the direct call
EvalResiduals == {2, 3}
EvalResults == { << >>, << Failure("DNValue", <<3, -1, 1>>) >> }

CallValidResidualTolerances ==
    /\ pc = "constructed"
    /\ \E sr \in EvalResiduals, lr \in EvalResiduals, rm \in EvalResiduals,
          pResults \in EvalResults :
          \E r \in {ValidResidualTolerances(m, sr, lr, rm, pResults)} :
              call' = [ op |-> "ValidResidualTolerances",
                        pdSampleResidual |-> sr, pdLineResidual |-> lr,
                        pdResidualMagnitude |-> rm, pResults |-> pResults,
                        bFlag |-> r.bFlag, results |-> r.results ]
    /\ UNCHANGED <<pc, pvl, m, md, cam, th>>

NextResidual ==
    \/ CallValidStandardOptions
    \/ CallValidResidualTolerances

SpecResidual == InitResidual /\ [][NextResidual]_vars

ResidualChecks == << "SampleResidual", "LineResidual", "ResidualMagnitude" >>

\* the tolerance a residual check compares with
Tolerance(check) ==
    CASE check = "SampleResidual"    -> m.mdSampleResTolerance
      [] check = "LineResidual"      -> m.mdLineResTolerance
      [] check = "ResidualMagnitude" -> m.mdResidualTolerance

\* the residual checks among the failures, in the order recorded
ResidualsRecorded(failures) ==
    SelectSeq(failures, LAMBDA f : \E i \in 1 .. 3 : f.check = ResidualChecks[i])

\* the failures of the checks whose value is above its own tolerance
ResidualsAbove(value) ==
    LET above(check) == value[check] > Tolerance(check)
        names == SelectSeq(ResidualChecks, above)
    IN  [i \in 1 .. Len(names) |-> Failure(names[i], <<Tolerance(names[i])>>)]

(* C13: with a measure supplied, each of SampleResidual, LineResidual and  *)
(* ResidualMagnitude is recorded iff its value is strictly greater than    *)
(* its own tolerance, independently of the other two; with no measure, no  *)
(* residual failure is recorded whatever residuals an earlier call left in *)
(* the validator; ValidResidualTolerances appends the same failures to the *)
(* results it is given and returns true iff it appended none.              *)
C13_ResidualFailures ==
    /\ (Returned_Results /\ ~call.pMeasure.null) =>
          ResidualsRecorded(call.out.failures) =
              ResidualsAbove([ SampleResidual    |-> call.pMeasure.SampleResidual,
                               LineResidual      |-> call.pMeasure.LineResidual,
                               ResidualMagnitude |-> call.pMeasure.ResidualMagnitude ])
    /\ (Returned_Results /\ call.pMeasure.null) =>
          ResidualsRecorded(call.out.failures) = << >>
    /\ call.op = "ValidResidualTolerances" =>
          /\ call.results =
                call.pResults \o
                ResidualsAbove([ SampleResidual    |-> call.pdSampleResidual,
                                 LineResidual      |-> call.pdLineResidual,
                                 ResidualMagnitude |-> call.pdResidualMagnitude ])
          /\ call.bFlag <=> (call.results = call.pResults)

\* a sample residual equal to its tolerance passes, the line residual of the
\* same measure is above its tolerance and is recorded
C13_Witness ==
    /\ Returned_Results
    /\ call.pMeasure = Measure(2, 3, 2)
    /\ m.mdSampleResTolerance = 2 /\ m.mdLineResTolerance = 2
    /\ ResidualsRecorded(call.out.failures) = << Failure("LineResidual", <<2>>) >>

-----------------------------------------------------------------------------
(* Two threads in ValidStandardOptions of one validator, each with a point *)
(* of its own cube.  The option members m are only read; the members md    *)
(* are assigned and read back by both threads, statement by statement;     *)
(* the results, the camera and the arguments are each thread's own.        *)

Threads == {1, 2}

ConcPvls ==
    { RangeGroup @@ [PixelsFromEdge |-> 1, MetersFromEdge |-> 10,
                     SampleResidual |-> 2, LineResidual |-> 2],
      RangeGroup @@ [PixelsFromEdge |-> 0, MetersFromEdge |-> 0, ResidualMagnitude |-> 2] }

\* the cube of each thread
ConcCube(t) == CHOOSE c \in EvalCubes : c.name = IF t = 1 THEN "A" ELSE "B"

ConcPoints   == { <<4, 4>>, <<6, 2>> }
ConcMeasures == { NullMeasure, Measure(3, 3, 3) }

Frame(t, pt, ms) ==
    [ pc |-> "Camera", pSample2 |-> pt[1], pLine2 |-> pt[2], pMeasure |-> ms,
      cube |-> ConcCube(t), pos |-> <<0, 0>>, results |-> << >>, out |-> Results(<< >>) ]

InitConc ==
    /\ pc = "constructed"
    /\ pvl \in ConcPvls
    /\ m = Parse(InitStdOptions, pvl).m
    /\ md \in MdUninit
    /\ cam = << >>
    /\ call = NoCall
    /\ th \in { [t \in Threads |-> Frame(t, pts[t], mss[t])] :
                   pts \in [Threads -> ConcPoints], mss \in [Threads -> ConcMeasures] }

\* thread t goes on to `next` with its frame changed to f
Goto(t, next, f) == th' = [th EXCEPT ![t] = [f EXCEPT !.pc = next]]

Fixed == UNCHANGED <<pc, pvl, m, cam, call>>

\* lines 155-162
T_Camera(t) ==
    /\ th[t].pc = "Camera"
    /\ IF CameraFails(th[t].cube)
       THEN Goto(t, "done", [th[t] EXCEPT !.out = Throw(CannotCreateCamera)])
       ELSE Goto(t, "SetImage", th[t])
    /\ UNCHANGED md /\ Fixed

\* line 164
T_SetImage(t) ==
    /\ th[t].pc = "SetImage"
    /\ IF CameraThrows(th[t].cube, th[t].pSample2, th[t].pLine2)
       THEN Goto(t, "done", [th[t] EXCEPT !.out = Throw("camera")])
       ELSE Goto(t, "Emission", [th[t] EXCEPT !.pos = <<th[t].pSample2, th[t].pLine2>>])
    /\ UNCHANGED md /\ Fixed

\* line 166
T_Emission(t) ==
    /\ th[t].pc = "Emission"
    /\ md' = [md EXCEPT !.mdEmissionAngle =
                 EmissionAngle(th[t].cube, th[t].pos[1], th[t].pos[2])]
    /\ Goto(t, "Incidence", th[t])
    /\ Fixed

\* line 167
T_Incidence(t) ==
    /\ th[t].pc = "Incidence"
    /\ md' = [md EXCEPT !.mdIncidenceAngle =
                 IncidenceAngle(th[t].cube, th[t].pos[1], th[t].pos[2])]
    /\ Goto(t, "Resolution", th[t])
    /\ Fixed

\* line 168
T_Resolution(t) ==
    /\ th[t].pc = "Resolution"
    /\ md' = [md EXCEPT !.mdResolution =
                 PixelResolution(th[t].cube, th[t].pos[1], th[t].pos[2])]
    /\ Goto(t, "Residuals", th[t])
    /\ Fixed

\* lines 169-173
T_Residuals(t) ==
    /\ th[t].pc = "Residuals"
    /\ md' = IF th[t].pMeasure.null THEN md
             ELSE [md EXCEPT !.mdSampleResidual    = th[t].pMeasure.SampleResidual,
                             !.mdLineResidual      = th[t].pMeasure.LineResidual,
                             !.mdResidualMagnitude = th[t].pMeasure.ResidualMagnitude]
    /\ Goto(t, "Dn", th[t])
    /\ Fixed

\* lines 175-178
T_Dn(t) ==
    /\ th[t].pc = "Dn"
    /\ md' = [md EXCEPT !.mdDnValue = DnValue(th[t].cube, th[t].pSample2, th[t].pLine2)]
    /\ Goto(t, "CheckEmission", th[t])
    /\ Fixed

\* the results with a failure added when the check did not hold
Checked(t, valid, failure) ==
    IF valid THEN th[t] ELSE [th[t] EXCEPT !.results = Append(@, failure)]

\* lines 192-195
T_CheckEmission(t) ==
    /\ th[t].pc = "CheckEmission"
    /\ Goto(t, "CheckIncidence",
            Checked(t, ValidEmissionAngle(m, md.mdEmissionAngle),
                    Failure("EmissionAngle",
                        <<md.mdEmissionAngle, m.mdMinEmissionAngle, m.mdMaxEmissionAngle>>)))
    /\ UNCHANGED md /\ Fixed

\* lines 197-200
T_CheckIncidence(t) ==
    /\ th[t].pc = "CheckIncidence"
    /\ Goto(t, "CheckDn",
            Checked(t, ValidIncidenceAngle(m, md.mdIncidenceAngle),
                    Failure("IncidenceAngle",
                        <<md.mdIncidenceAngle, m.mdMinIncidenceAngle, m.mdMaxEmissionAngle>>)))
    /\ UNCHANGED md /\ Fixed

\* lines 202-205
T_CheckDn(t) ==
    /\ th[t].pc = "CheckDn"
    /\ Goto(t, "CheckResolution",
            Checked(t, ValidDnValue(m, md.mdDnValue),
                    Failure("DNValue", <<md.mdDnValue, m.mdMinDN, m.mdMaxDN>>)))
    /\ UNCHANGED md /\ Fixed

\* lines 207-210
T_CheckResolution(t) ==
    /\ th[t].pc = "CheckResolution"
    /\ Goto(t, "PixelsFromEdge",
            Checked(t, ValidResolution(m, md.mdResolution),
                    Failure("Resolution",
                        <<md.mdResolution, m.mdMinResolution, m.mdMaxResolution>>)))
    /\ UNCHANGED md /\ Fixed

\* lines 212-214
T_PixelsFromEdge(t) ==
    /\ th[t].pc = "PixelsFromEdge"
    /\ Goto(t, "MetersFromEdge",
            Checked(t, PixelsFromEdge(m, ToInt(th[t].pSample2), ToInt(th[t].pLine2), th[t].cube),
                    Failure("PixelsFromEdge", <<m.miPixelsFromEdge>>)))
    /\ UNCHANGED md /\ Fixed

\* lines 216-219: the walk uses the thread's own camera only
T_MetersFromEdge(t) ==
    /\ th[t].pc = "MetersFromEdge"
    /\ \E r \in {MetersFromEdge(m, ToInt(th[t].pSample2), ToInt(th[t].pLine2),
                                th[t].cube, th[t].pos)} :
          IF r.thrown
          THEN Goto(t, "done", [th[t] EXCEPT !.out = Throw(CannotCreateCamera),
                                             !.pos = r.pos])
          ELSE Goto(t, "ResidualTolerances",
                    [Checked(t, r.ret, Failure("MetersFromEdge", <<m.mdMetersFromEdge>>))
                        EXCEPT !.pos = r.pos])
    /\ UNCHANGED md /\ Fixed

\* lines 221-226
T_ResidualTolerances(t) ==
    /\ th[t].pc = "ResidualTolerances"
    /\ \E res \in { IF th[t].pMeasure.null THEN th[t].results
                    ELSE ValidResidualTolerances(m, md.mdSampleResidual, md.mdLineResidual,
                             md.mdResidualMagnitude, th[t].results).results } :
          Goto(t, "done", [th[t] EXCEPT !.results = res, !.out = Results(res)])
    /\ UNCHANGED md /\ Fixed

NextConc ==
    \E t \in Threads :
        \/ T_Camera(t)
        \/ T_SetImage(t)
        \/ T_Emission(t)
        \/ T_Incidence(t)
        \/ T_Resolution(t)
        \/ T_Residuals(t)
        \/ T_Dn(t)
        \/ T_CheckEmission(t)
        \/ T_CheckIncidence(t)
        \/ T_CheckDn(t)
        \/ T_CheckResolution(t)
        \/ T_PixelsFromEdge(t)
        \/ T_MetersFromEdge(t)
        \/ T_ResidualTolerances(t)

SpecConc == InitConc /\ [][NextConc]_vars

\* what the call of thread t gives back when it runs alone
Alone(t) ==
    ValidStandardOptions(m, NoMd, th[t].pSample2, th[t].pLine2, th[t].pMeasure,
                         th[t].cube, <<0, 0>>).out

(* C9: two calls of ValidStandardOptions running concurrently on the same  *)
(* validator, for points of different cubes, each give back, under every   *)
(* interleaving of their steps, what the call gives back when run alone.   *)
C9_ConcurrentAsAlone ==
    \A t \in Threads : th[t].pc = "done" => th[t].out = Alone(t)

=============================================================================
